---- MODULE Spec2Model ----
(***************************************************************************)
(* Model of oor_benchmark/methods/scArches_milo.py: the scArches + Milo    *)
(* workflow for out-of-reference (OOR) state detection.                    *)
(*                                                                         *)
(* One run of scArches_milo is a state machine whose position (pc) walks   *)
(* the statements of the function.  AnnData objects live in a heap (objs)  *)
(* and the local name `adata` is a reference into it, so that aliasing and *)
(* copying are visible.  The delegated libraries (scvi, scanpy, milopy and *)
(* embedding_scArches) are represented by the outcome they give in the     *)
(* scenario under test (env): what the model directory holds, which call   *)
(* raises, how many neighbourhoods are sampled and which statistics the    *)
(* fit returns.                                                            *)
(*                                                                         *)
(* Numbers are scaled integers: signif_alpha, SpatialFDR in tenths.        *)
(***************************************************************************)
EXTENDS Integers, Sequences, FiniteSets, TLC

VARIABLES objs, adata, arg, env, pc, calls, exc, vae_ref, vae_q, ret, given

vars == <<objs, adata, arg, env, pc, calls, exc, vae_ref, vae_q, ret, given>>

(***************************************************************************)
(* Bounds                                                                  *)
(***************************************************************************)
MaxCells == 3
MaxSamples == 4
MaxNhoods == 2

(***************************************************************************)
(* Values                                                                  *)
(***************************************************************************)
Groups == {"atlas", "ctrl", "query", "other"}
EmbVals == {1, 2}
AlphaVals == {1, 2}
FDRVals == {0, 1, 2}
LogFCVals == {-1, 0, 1}
NoOutdir == "None"
OutdirVals == {NoOutdir, "outdir"}
DiskStates == {"missing", "malformed", "garbled", "denied", "corrupt", "saved", "stale"}
NoExc == [cls |-> "none", at |-> "none"]

(***************************************************************************)
(* Python exception classes and the except clause of the load step         *)
(***************************************************************************)
Parent(c) ==
    CASE c = "FileNotFoundError" -> "OSError"
      [] c = "PermissionError" -> "OSError"
      [] c = "OSError" -> "Exception"
      [] c = "UnicodeDecodeError" -> "ValueError"
      [] c = "ValueError" -> "Exception"
      [] c = "RuntimeError" -> "Exception"
      [] c = "KeyError" -> "Exception"
      [] OTHER -> "BaseException"

RECURSIVE IsInstance(_, _)
IsInstance(c, cls) ==
    IF c = cls THEN TRUE
    ELSE IF c = "BaseException" THEN FALSE
    ELSE IsInstance(Parent(c), cls)

\* except Exception  (catch-all variant)
CaughtAll(c) == IsInstance(c, "Exception")

\* except ValueError  (missing-file failures not recovered)
CaughtValueOnly(c) == IsInstance(c, "ValueError")

\* except FileNotFoundError  (malformed-value failures not recovered)
CaughtMissingOnly(c) == IsInstance(c, "FileNotFoundError")

\* except (ValueError, FileNotFoundError)
Caught(c) == IsInstance(c, "ValueError") \/ IsInstance(c, "FileNotFoundError")

\* what scvi.model.SCVI.load raises for a model directory in state st
LoadError(st) ==
    CASE st = "missing" -> "FileNotFoundError"
      [] st = "malformed" -> "ValueError"
      [] st = "garbled" -> "UnicodeDecodeError"
      [] st = "denied" -> "PermissionError"
      [] OTHER -> "RuntimeError"

Loadable(st) == st \in {"saved", "stale"}

(***************************************************************************)
(* AnnData objects                                                         *)
(***************************************************************************)
NoShape == [rows |-> 0, cols |-> 0]
NoTable == [n_obs |-> 0, n_vars |-> 0, obs |-> <<>>]
NoSample == [n_obs |-> 0, n_vars |-> 0, var |-> <<>>, groups |-> NoShape]

NewAnnData(cells, hasEmb, emb) ==
    [obs |-> cells,
     obs_cols |-> {"dataset_group", "sample_id", "cell_annotation"},
     is_query |-> <<>>,
     obsm_keys |-> IF hasEmb THEN {"X_scVI"} ELSE {},
     X_scVI |-> emb,
     nhoods |-> NoShape,
     uns_keys |-> {},
     n_neighbors |-> 0,
     nhood_adata |-> NoTable,
     sample_adata |-> NoSample]

n_obs(o) == Len(o.obs)

RECURSIVE KeptIdx(_, _, _)
\* positions i >= from of obs whose dataset_group is in gs, in order
KeptIdx(obs, gs, from) ==
    IF from > Len(obs) THEN <<>>
    ELSE IF obs[from].group \in gs
         THEN <<from>> \o KeptIdx(obs, gs, from + 1)
         ELSE KeptIdx(obs, gs, from + 1)

Take(s, idx) == [j \in 1..Len(idx) |-> s[idx[j]]]

\* adata[adata.obs["dataset_group"].isin(gs)].copy() with the rows taken in
\* place from the caller's row positions 1..n (misaligned variant)
SubsetMisaligned(o, gs) ==
    LET idx == KeptIdx(o.obs, gs, 1)
        pre == [j \in 1..Len(idx) |-> j]
    IN [o EXCEPT !.obs = Take(o.obs, idx),
                 !.is_query = IF "is_query" \in o.obs_cols THEN Take(o.is_query, idx) ELSE <<>>,
                 !.X_scVI = IF "X_scVI" \in o.obsm_keys THEN Take(o.X_scVI, pre) ELSE <<>>]

\* adata[adata.obs["dataset_group"].isin(gs)].copy()
Subset(o, gs) ==
    LET idx == KeptIdx(o.obs, gs, 1)
    IN [o EXCEPT !.obs = Take(o.obs, idx),
                 !.is_query = IF "is_query" \in o.obs_cols THEN Take(o.is_query, idx) ELSE <<>>,
                 !.X_scVI = IF "X_scVI" \in o.obsm_keys THEN Take(o.X_scVI, idx) ELSE <<>>]

Names(obs) == [i \in 1..Len(obs) |-> obs[i].name]

\* latent vector a model gives for the cell called name
Lat(name) == 10 + name

LatentRep(cellNames) == [i \in 1..Len(cellNames) |-> Lat(cellNames[i])]

\* np.vstack([a, b])
VStack(a, b) == a \o b

\* transposition left out
TransposeId(sh) == sh

\* .T on a matrix shape
Transpose(sh) == [rows |-> sh.cols, cols |-> sh.rows]

\* number of distinct sample ids among the cells of group g
NUnique(o, g) == Cardinality({o.obs[i].sample : i \in {j \in 1..n_obs(o) : o.obs[j].group = g}})

NSamples(o) == Cardinality({o.obs[i].sample : i \in 1..n_obs(o)})

\* n_neighbors without the factor
NNeighborsUnion(o, diff_reference) ==
    Cardinality({o.obs[i].sample : i \in {j \in 1..n_obs(o) : o.obs[j].group \in {diff_reference, "query"}}}) * 5

\* (n_controls + n_querys) * 5
NNeighbors(o, diff_reference) == (NUnique(o, diff_reference) + NUnique(o, "query")) * 5

\* <= in place of <
OORSignifLeq(fdr, logFC, signif_alpha) == IF fdr <= signif_alpha /\ logFC > 0 THEN 1 ELSE 0

\* ((SpatialFDR < signif_alpha) & (logFC > 0)).astype(int)
OORSignif(fdr, logFC, signif_alpha) == IF fdr < signif_alpha /\ logFC > 0 THEN 1 ELSE 0

(***************************************************************************)
(* Persisted models and training                                           *)
(***************************************************************************)
\* cells of the AnnData stored with a saved model: the reference-group
\* cells for model_<ref>, the other cells for model_fit_query2<ref>; a
\* stale directory holds a model of another collection (one more cell)
SavedCells(o, ref, which, st) ==
    LET gs == IF which = "ref" THEN {ref} ELSE Groups \ {ref}
        cur == Names(Take(o.obs, KeptIdx(o.obs, gs, 1)))
    IN IF st = "stale" THEN Append(cur, 0) ELSE cur

\* embedding attached by embedding_scArches: query rows, then reference rows
TrainedEmbedding(o, ref) ==
    VStack(LatentRep(SavedCells(o, ref, "q", "saved")), LatentRep(SavedCells(o, ref, "ref", "saved")))

(***************************************************************************)
(* Control flow                                                            *)
(***************************************************************************)
\* always recompute
EmbedEntryNoSkip(o, outdir) == IF outdir # NoOutdir THEN "load_ref" ELSE "train"

\* lines 82-83, 95: which branch the embedding step takes
EmbedEntry(o, outdir) ==
    IF "X_scVI" \in o.obsm_keys THEN "neighbors"
    ELSE IF outdir # NoOutdir THEN "load_ref" ELSE "train"

\* fit before the covariate is assigned
AfterSwapped(call, harmonize_output) ==
    CASE call = "neighbors" -> "make_nhoods"
      [] call = "make_nhoods" -> "count_nhoods"
      [] call = "count_nhoods" -> "annotate_nhoods"
      [] call = "annotate_nhoods" -> "DA_nhoods"
      [] call = "DA_nhoods" -> "is_query"
      [] call = "is_query" -> IF harmonize_output THEN "harmonize" ELSE "return"
      [] OTHER -> "return"

\* statement order of lines 105-118 and of run_milo
After(call, harmonize_output) ==
    CASE call = "neighbors" -> "make_nhoods"
      [] call = "make_nhoods" -> "count_nhoods"
      [] call = "count_nhoods" -> "annotate_nhoods"
      [] call = "annotate_nhoods" -> "is_query"
      [] call = "is_query" -> "DA_nhoods"
      [] call = "DA_nhoods" -> IF harmonize_output THEN "harmonize" ELSE "return"
      [] OTHER -> "return"

Faulty(call) == env.fault.at = call

Raise(cls, call) ==
    /\ pc' = "raised"
    /\ exc' = [cls |-> cls, at |-> call]

Cur == objs[adata]

(***************************************************************************)
(* Scenarios                                                               *)
(***************************************************************************)
Presets == {<<"atlas", "ctrl">>, <<"atlas", "atlas">>, <<"ctrl", "ctrl">>}

NoFault == [at |-> "none", cls |-> "none"]
DefaultStats == <<[logFC |-> 1, SpatialFDR |-> 0]>>

Cell(n, g, s) == [name |-> n, group |-> g, sample |-> s]

\* collections of up to MaxCells cells, any groups, two samples alternating
GroupCollections ==
    UNION {{[i \in 1..n |-> Cell(i, f[i], 1 + (i % 2))] : f \in [1..n -> Groups]} : n \in 0..MaxCells}

\* collections of up to MaxCells cells over the analysed groups and two samples
SampleCollections ==
    UNION {{[i \in 1..n |-> Cell(i, f[i][1], f[i][2])] :
              f \in [1..n -> {"atlas", "ctrl", "query"} \X {1, 2}]} : n \in 0..MaxCells}

\* one atlas cell, then nc control samples and nq query samples of per cells each
Cohort(nc, nq, per, shared) ==
    [i \in 1..(1 + per * (nc + nq)) |->
        IF i = 1 THEN Cell(i, "atlas", 100)
        ELSE IF i <= 1 + per * nc THEN Cell(i, "ctrl", 1 + ((i - 2) % nc))
        ELSE Cell(i, "query", (IF shared THEN 0 ELSE nc) + 1 + ((i - 2 - per * nc) % nq))]

CohortCollections ==
    {Cohort(nc, nq, per, sh) : nc \in 0..MaxSamples, nq \in 0..MaxSamples, per \in 1..2, sh \in BOOLEAN}

Args(p, alpha, outdir, harm) ==
    [embedding_reference |-> p[1], diff_reference |-> p[2],
     signif_alpha |-> alpha, outdir |-> outdir, harmonize_output |-> harm]

Env(dref, dq, fault, stats) ==
    [disk_ref |-> dref, disk_q |-> dq, fault |-> fault, n_nhoods |-> Len(stats), stats |-> stats]

StatRows == [logFC : LogFCVals, SpatialFDR : FDRVals]
StatTables == UNION {[1..n -> StatRows] : n \in 1..MaxNhoods}

Start(cells, hasEmb, emb, a, e) ==
    /\ objs = <<NewAnnData(cells, hasEmb, emb)>>
    /\ given = NewAnnData(cells, hasEmb, emb)
    /\ adata = 1
    /\ arg = a
    /\ env = e
    /\ pc = "select"
    /\ calls = <<>>
    /\ exc = NoExc
    /\ vae_ref = <<>>
    /\ vae_q = <<>>
    /\ ret = 0

\* no embedding supplied: every state of the model directory
InitLoad ==
    \E cells \in GroupCollections, p \in Presets, dref \in DiskStates, dq \in DiskStates,
       f \in {NoFault, [at |-> "train", cls |-> "RuntimeError"], [at |-> "train", cls |-> "ValueError"]} :
        Start(cells, FALSE, <<>>, Args(p, 1, "outdir", TRUE), Env(dref, dq, f, DefaultStats))

\* no embedding supplied, no output directory
InitTrain ==
    \E cells \in GroupCollections, p \in Presets,
       f \in {NoFault, [at |-> "train", cls |-> "RuntimeError"], [at |-> "train", cls |-> "FileNotFoundError"]} :
        Start(cells, FALSE, <<>>, Args(p, 1, NoOutdir, TRUE), Env("missing", "missing", f, DefaultStats))

\* embedding supplied by the caller
InitSupplied ==
    \E cells \in GroupCollections, p \in Presets, outdir \in OutdirVals,
       d \in {"missing", "saved"} :
        \E emb \in [1..Len(cells) -> EmbVals] :
            Start(cells, TRUE, emb, Args(p, 1, outdir, TRUE), Env(d, d, NoFault, DefaultStats))

\* sample cohorts
InitCohort ==
    \E cells \in CohortCollections \cup SampleCollections, p \in Presets :
        Start(cells, TRUE, [i \in 1..Len(cells) |-> 1], Args(p, 1, NoOutdir, TRUE),
              Env("missing", "missing", NoFault, DefaultStats))

\* neighbourhood statistics
InitStats ==
    \E nc \in 1..2, nq \in 1..2, alpha \in AlphaVals, harm \in BOOLEAN, stats \in StatTables :
        LET cells == Cohort(nc, nq, 1, FALSE)
        IN Start(cells, TRUE, [i \in 1..Len(cells) |-> 1], Args(<<"atlas", "ctrl">>, alpha, NoOutdir, harm),
                 Env("missing", "missing", NoFault, stats))

\* a delegated call raises
InitFault ==
    \E cells \in {Cohort(1, 1, 1, FALSE), Cohort(2, 1, 1, FALSE)}, p \in Presets, hasEmb \in BOOLEAN,
       outdir \in OutdirVals, d \in {"missing", "saved"}, harm \in BOOLEAN,
       at \in {"train", "neighbors", "make_nhoods", "count_nhoods", "annotate_nhoods", "DA_nhoods"},
       cls \in {"RuntimeError", "ValueError", "FileNotFoundError", "KeyError"} :
        Start(cells, hasEmb, IF hasEmb THEN [i \in 1..Len(cells) |-> 2] ELSE <<>>,
              Args(p, 1, outdir, harm), Env(d, d, [at |-> at, cls |-> cls], DefaultStats))

Init == InitLoad \/ InitTrain \/ InitSupplied \/ InitCohort \/ InitStats \/ InitFault

(***************************************************************************)
(* Steps of scArches_milo                                                  *)
(***************************************************************************)
\* the subset is written back into the caller's object
SelectInPlace ==
    /\ pc = "select"
    /\ LET new == Subset(Cur, {arg.embedding_reference, arg.diff_reference, "query"})
       IN /\ objs' = [objs EXCEPT ![adata] = new]
          /\ adata' = adata
          /\ pc' = EmbedEntry(new, arg.outdir)
    /\ calls' = Append(calls, "select")
    /\ UNCHANGED <<arg, env, exc, vae_ref, vae_q, ret, given>>

\* line 79 and the branch of lines 82-83
Select ==
    /\ pc = "select"
    /\ LET new == Subset(Cur, {arg.embedding_reference, arg.diff_reference, "query"})
       IN /\ objs' = Append(objs, new)
          /\ adata' = Len(objs) + 1
          /\ pc' = EmbedEntry(new, arg.outdir)
    /\ calls' = Append(calls, "select")
    /\ UNCHANGED <<arg, env, exc, vae_ref, vae_q, ret, given>>

\* line 86, inside the try
LoadRef ==
    /\ pc = "load_ref"
    /\ calls' = Append(calls, "load_ref")
    /\ IF Loadable(env.disk_ref)
       THEN /\ vae_ref' = SavedCells(Cur, arg.embedding_reference, "ref", env.disk_ref)
            /\ pc' = "load_q"
            /\ exc' = exc
       ELSE /\ vae_ref' = vae_ref
            /\ IF Caught(LoadError(env.disk_ref))
               THEN pc' = "train" /\ exc' = exc
               ELSE Raise(LoadError(env.disk_ref), "load_ref")
    /\ UNCHANGED <<objs, adata, arg, env, vae_q, ret, given>>

\* line 87, inside the try
LoadQ ==
    /\ pc = "load_q"
    /\ calls' = Append(calls, "load_q")
    /\ IF Loadable(env.disk_q)
       THEN /\ vae_q' = SavedCells(Cur, arg.embedding_reference, "q", env.disk_q)
            /\ pc' = "attach"
            /\ exc' = exc
       ELSE /\ vae_q' = vae_q
            /\ IF Caught(LoadError(env.disk_q))
               THEN pc' = "train" /\ exc' = exc
               ELSE Raise(LoadError(env.disk_q), "load_q")
    /\ UNCHANGED <<objs, adata, arg, env, vae_ref, ret, given>>

\* lines 88-90, inside the try: obsm rejects a matrix of the wrong row count
Attach ==
    /\ pc = "attach"
    /\ calls' = Append(calls, "attach")
    /\ LET m == VStack(LatentRep(vae_q), LatentRep(vae_ref))
       IN IF Len(m) = n_obs(Cur)
          THEN /\ objs' = [objs EXCEPT ![adata].obsm_keys = @ \cup {"X_scVI"}, ![adata].X_scVI = m]
               /\ pc' = "neighbors"
               /\ exc' = exc
          ELSE /\ objs' = objs
               /\ IF Caught("ValueError")
                  THEN pc' = "train" /\ exc' = exc
                  ELSE Raise("ValueError", "attach")
    /\ UNCHANGED <<adata, arg, env, vae_ref, vae_q, ret, given>>

\* lines 92-94 and 96: embedding_scArches
Train ==
    /\ pc = "train"
    /\ calls' = Append(calls, "train")
    /\ IF Faulty("train")
       THEN /\ Raise(env.fault.cls, "train")
            /\ objs' = objs
       ELSE /\ objs' = [objs EXCEPT ![adata].obsm_keys = @ \cup {"X_scVI"},
                                    ![adata].X_scVI = TrainedEmbedding(Cur, arg.embedding_reference)]
            /\ pc' = "neighbors"
            /\ exc' = exc
    /\ UNCHANGED <<adata, arg, env, vae_ref, vae_q, ret, given>>

\* lines 99-105
Neighbors ==
    /\ pc = "neighbors"
    /\ calls' = Append(calls, "neighbors")
    /\ LET drop == arg.diff_reference # arg.embedding_reference
           o == IF drop THEN Subset(Cur, Groups \ {arg.embedding_reference}) ELSE Cur
           heap == IF drop THEN Append(objs, o) ELSE objs
           ref == IF drop THEN Len(objs) + 1 ELSE adata
           k == NNeighbors(o, arg.diff_reference)
       IN /\ adata' = ref
          /\ IF Faulty("neighbors")
             THEN /\ Raise(env.fault.cls, "neighbors")
                  /\ objs' = heap
             ELSE /\ objs' = [heap EXCEPT ![ref].uns_keys = @ \cup {"neighbors"}, ![ref].n_neighbors = k]
                  /\ pc' = After("neighbors", arg.harmonize_output)
                  /\ exc' = exc
    /\ UNCHANGED <<arg, env, vae_ref, vae_q, ret, given>>

\* line 35
MakeNhoods ==
    /\ pc = "make_nhoods"
    /\ calls' = Append(calls, "make_nhoods")
    /\ IF Faulty("make_nhoods")
       THEN /\ Raise(env.fault.cls, "make_nhoods")
            /\ objs' = objs
       ELSE /\ objs' = [objs EXCEPT ![adata].obsm_keys = @ \cup {"nhoods"},
                                    ![adata].nhoods = [rows |-> n_obs(Cur), cols |-> env.n_nhoods]]
            /\ pc' = After("make_nhoods", arg.harmonize_output)
            /\ exc' = exc
    /\ UNCHANGED <<adata, arg, env, vae_ref, vae_q, ret, given>>

\* line 36
CountNhoods ==
    /\ pc = "count_nhoods"
    /\ calls' = Append(calls, "count_nhoods")
    /\ IF Faulty("count_nhoods")
       THEN /\ Raise(env.fault.cls, "count_nhoods")
            /\ objs' = objs
       ELSE /\ objs' = [objs EXCEPT ![adata].uns_keys = @ \cup {"nhood_adata"},
                                    ![adata].nhood_adata =
                                        [n_obs |-> Cur.nhoods.cols, n_vars |-> NSamples(Cur), obs |-> <<>>]]
            /\ pc' = After("count_nhoods", arg.harmonize_output)
            /\ exc' = exc
    /\ UNCHANGED <<adata, arg, env, vae_ref, vae_q, ret, given>>

\* line 37
AnnotateNhoods ==
    /\ pc = "annotate_nhoods"
    /\ calls' = Append(calls, "annotate_nhoods")
    /\ IF Faulty("annotate_nhoods")
       THEN Raise(env.fault.cls, "annotate_nhoods")
       ELSE /\ pc' = After("annotate_nhoods", arg.harmonize_output)
            /\ exc' = exc
    /\ UNCHANGED <<objs, adata, arg, env, vae_ref, vae_q, ret, given>>

\* line 38
IsQuery ==
    /\ pc = "is_query"
    /\ calls' = Append(calls, "is_query")
    /\ objs' = [objs EXCEPT ![adata].obs_cols = @ \cup {"is_query"},
                            ![adata].is_query = [i \in 1..n_obs(Cur) |-> Cur.obs[i].group = "query"]]
    /\ pc' = After("is_query", arg.harmonize_output)
    /\ UNCHANGED <<adata, arg, env, exc, vae_ref, vae_q, ret, given>>

\* line 39: the design names the is_query column
DANhoods ==
    /\ pc = "DA_nhoods"
    /\ calls' = Append(calls, "DA_nhoods")
    /\ IF Faulty("DA_nhoods") \/ "is_query" \notin Cur.obs_cols
       THEN /\ Raise(IF Faulty("DA_nhoods") THEN env.fault.cls ELSE "KeyError", "DA_nhoods")
            /\ objs' = objs
       ELSE /\ objs' = [objs EXCEPT ![adata].nhood_adata.obs = env.stats]
            /\ pc' = After("DA_nhoods", arg.harmonize_output)
            /\ exc' = exc
    /\ UNCHANGED <<adata, arg, env, vae_ref, vae_q, ret, given>>

\* lines 110-117
Harmonize ==
    /\ pc = "harmonize"
    /\ calls' = Append(calls, "harmonize")
    /\ LET t == Cur.nhood_adata
           sample_adata ==
               [n_obs |-> Transpose([rows |-> t.n_obs, cols |-> t.n_vars]).rows,
                n_vars |-> Transpose([rows |-> t.n_obs, cols |-> t.n_vars]).cols,
                var |-> [j \in 1..Len(t.obs) |->
                            [logFC |-> t.obs[j].logFC,
                             SpatialFDR |-> t.obs[j].SpatialFDR,
                             OOR_score |-> t.obs[j].logFC,
                             OOR_signif |-> OORSignif(t.obs[j].SpatialFDR, t.obs[j].logFC, arg.signif_alpha)]],
                groups |-> Transpose(Cur.nhoods)]
       IN IF sample_adata.groups.rows = sample_adata.n_vars
          THEN /\ objs' = [objs EXCEPT ![adata].uns_keys = @ \cup {"sample_adata"},
                                       ![adata].sample_adata = sample_adata]
               /\ pc' = After("harmonize", arg.harmonize_output)
               /\ exc' = exc
          ELSE /\ objs' = objs
               /\ Raise("ValueError", "harmonize")
    /\ UNCHANGED <<adata, arg, env, vae_ref, vae_q, ret, given>>

\* line 118
Return ==
    /\ pc = "return"
    /\ ret' = adata
    /\ pc' = "returned"
    /\ UNCHANGED <<objs, adata, arg, env, calls, exc, vae_ref, vae_q, given>>

Next ==
    \/ Select
    \/ LoadRef
    \/ LoadQ
    \/ Attach
    \/ Train
    \/ Neighbors
    \/ MakeNhoods
    \/ CountNhoods
    \/ AnnotateNhoods
    \/ IsQuery
    \/ DANhoods
    \/ Harmonize
    \/ Return

Spec == Init /\ [][Next]_vars

(***************************************************************************)
(* Properties                                                              *)
(***************************************************************************)
Done == pc \in {"returned", "raised"}
Called(name) == \E i \in 1..Len(calls) : calls[i] = name
CountCalls(name) == Cardinality({i \in 1..Len(calls) : calls[i] = name})
Supplied == "X_scVI" \in given.obsm_keys
Harmonized == "sample_adata" \in Cur.uns_keys

\* C1: with harmonize_output on, every neighbourhood gets OOR_signif = 1 exactly when the
\* SpatialFDR returned by the fit is strictly below signif_alpha and its logFC is strictly
\* positive, and 0 otherwise (so 0 at SpatialFDR = signif_alpha, at logFC = 0, at logFC < 0).
C1_OORSignif ==
    Harmonized =>
        /\ Len(Cur.sample_adata.var) = env.n_nhoods
        /\ \A j \in 1..env.n_nhoods :
              LET row == Cur.sample_adata.var[j]
                  fdr == env.stats[j].SpatialFDR
                  lfc == env.stats[j].logFC
              IN /\ row.OOR_signif \in {0, 1}
                 /\ row.OOR_signif = 1 <=> (fdr < arg.signif_alpha /\ lfc > 0)
                 /\ fdr = arg.signif_alpha => row.OOR_signif = 0
                 /\ lfc = 0 => row.OOR_signif = 0
                 /\ lfc < 0 => row.OOR_signif = 0
                 /\ row.OOR_score = lfc

C1_Witness ==
    /\ pc = "returned"
    /\ Harmonized
    /\ \E j \in 1..env.n_nhoods :
          /\ env.stats[j].SpatialFDR = arg.signif_alpha
          /\ env.stats[j].logFC > 0
          /\ Cur.sample_adata.var[j].OOR_signif = 0
    /\ \E j \in 1..env.n_nhoods : Cur.sample_adata.var[j].OOR_signif = 1

\* C2: when the caller's collection carries X_scVI, whatever outdir is, no model is loaded,
\* nothing is trained, and every retained cell keeps the vector the caller gave it.
C2_FastPath ==
    (Supplied /\ Called("select")) =>
        /\ ~Called("load_ref") /\ ~Called("load_q") /\ ~Called("attach") /\ ~Called("train")
        /\ "X_scVI" \in Cur.obsm_keys
        /\ Len(Cur.X_scVI) = n_obs(Cur)
        /\ \A i \in 1..n_obs(Cur) : Cur.X_scVI[i] = given.X_scVI[Cur.obs[i].name]

C2_Witness ==
    /\ pc = "returned"
    /\ Supplied
    /\ arg.outdir # NoOutdir
    /\ env.disk_ref = "saved"
    /\ n_obs(Cur) >= 1
    /\ Cur.obs[1].name = 2
    /\ given.X_scVI[1] # given.X_scVI[2]

\* C3: no embedding, outdir holding no saved model: the missing-file failure of the load is
\* not raised, embedding_scArches is called exactly once, and the later stages follow.
NoSavedModels == ~Supplied /\ arg.outdir # NoOutdir /\ env.disk_ref = "missing" /\ env.disk_q = "missing"

C3_MissingFallsBack ==
    NoSavedModels =>
        /\ exc.at \notin {"load_ref", "load_q", "attach"}
        /\ (Called("load_ref") /\ pc # "train") => CountCalls("train") = 1
        /\ CountCalls("train") <= 1
        /\ ~Called("load_q") /\ ~Called("attach")
        /\ pc = "raised" => (env.fault.at # "none" /\ exc.at = env.fault.at)
        /\ (Called("train") /\ env.fault.at # "train") => (pc # "raised" \/ exc.at # "train")

C3_Witness ==
    /\ NoSavedModels
    /\ pc = "returned"
    /\ calls = <<"select", "load_ref", "train", "neighbors", "make_nhoods", "count_nhoods",
                 "annotate_nhoods", "is_query", "DA_nhoods", "harmonize">>

\* C4: a load failure other than FileNotFoundError / ValueError propagates unchanged, with no
\* training call and no later stage; the fallback is entered only after one of those two.
Recoverable == {"FileNotFoundError", "ValueError", "UnicodeDecodeError"}

C4_OtherLoadFailuresPropagate ==
    /\ (Called("load_ref") /\ ~Loadable(env.disk_ref) /\ LoadError(env.disk_ref) \notin Recoverable) =>
          /\ pc = "raised"
          /\ exc = [cls |-> LoadError(env.disk_ref), at |-> "load_ref"]
          /\ calls = <<"select", "load_ref">>
    /\ (Called("load_q") /\ ~Loadable(env.disk_q) /\ LoadError(env.disk_q) \notin Recoverable) =>
          /\ pc = "raised"
          /\ exc = [cls |-> LoadError(env.disk_q), at |-> "load_q"]
          /\ calls = <<"select", "load_ref", "load_q">>
    /\ (Called("load_ref") /\ (Called("train") \/ pc = "train")) =>
          \/ ~Loadable(env.disk_ref) /\ LoadError(env.disk_ref) \in Recoverable
          \/ Loadable(env.disk_ref) /\ ~Loadable(env.disk_q) /\ LoadError(env.disk_q) \in Recoverable
          \/ Loadable(env.disk_ref) /\ Loadable(env.disk_q) /\ Called("attach")

C4_Witness ==
    /\ pc = "raised"
    /\ exc = [cls |-> "PermissionError", at |-> "load_q"]
    /\ env.disk_ref = "saved"
    /\ ~Called("train")

\* C5: the graph is built with n_neighbors = 5 * (distinct sample ids of the diff_reference
\* cells + distinct sample ids of the query cells) of the collection it is built on; sample
\* cohorts of (2, 3) give 25 and of (4, 4) give 40.
SamplesOf(o, g) == {o.obs[i].sample : i \in {j \in 1..Len(o.obs) : o.obs[j].group = g}}

C5_NeighborCount ==
    "neighbors" \in Cur.uns_keys =>
        /\ Cur.n_neighbors =
              5 * (Cardinality(SamplesOf(Cur, arg.diff_reference)) + Cardinality(SamplesOf(Cur, "query")))
        /\ (arg.diff_reference = "ctrl" /\ Cardinality(SamplesOf(given, "ctrl")) = 2
               /\ Cardinality(SamplesOf(given, "query")) = 3) => Cur.n_neighbors = 25
        /\ (arg.diff_reference = "ctrl" /\ Cardinality(SamplesOf(given, "ctrl")) = 4
               /\ Cardinality(SamplesOf(given, "query")) = 4) => Cur.n_neighbors = 40

C5_Witness ==
    /\ pc = "returned"
    /\ arg.diff_reference = "ctrl"
    /\ Cardinality(SamplesOf(given, "ctrl")) = 2
    /\ Cardinality(SamplesOf(given, "query")) = 3
    /\ SamplesOf(given, "ctrl") \cap SamplesOf(given, "query") # {}
    /\ Cur.n_neighbors = 25

C5_Witness44 ==
    /\ pc = "returned"
    /\ Cardinality(SamplesOf(given, "ctrl")) = 4
    /\ Cardinality(SamplesOf(given, "query")) = 4
    /\ Cur.n_neighbors = 40

\* C6 as stated: the table under uns['sample_adata'] has as many rows as there are
\* neighbourhoods, and 'groups' has shape (neighbourhoods x cells of the diff subset).
DiffCells == Cardinality({i \in 1..Len(given.obs) : given.obs[i].group \in {arg.diff_reference, "query"}})
DiffSamples == Cardinality({given.obs[i].sample :
                               i \in {j \in 1..Len(given.obs) : given.obs[j].group \in {arg.diff_reference, "query"}}})

C6_RowsAreNhoods ==
    Harmonized =>
        /\ Cur.sample_adata.n_obs = env.n_nhoods
        /\ Cur.sample_adata.groups = [rows |-> env.n_nhoods, cols |-> DiffCells]

\* C6 amended: the table under uns['sample_adata'] has one variable (column) per neighbourhood
\* and one row per distinct sample id of the diff subset; 'groups' is attached to the
\* variables and has shape (neighbourhoods x cells of the diff subset).
C6_VarsAreNhoods ==
    Harmonized =>
        /\ Cur.sample_adata.n_vars = env.n_nhoods
        /\ Len(Cur.sample_adata.var) = env.n_nhoods
        /\ Cur.sample_adata.n_obs = DiffSamples
        /\ Cur.sample_adata.groups = [rows |-> env.n_nhoods, cols |-> DiffCells]

C6_Witness ==
    /\ pc = "returned"
    /\ Harmonized
    /\ env.n_nhoods = 1
    /\ DiffSamples = 3
    /\ DiffCells = 3
    /\ Cur.sample_adata.n_vars = 1

\* C7: on the load path, row i of the attached X_scVI is the latent vector of cell i of the
\* filtered collection.
Loaded == Called("attach") /\ ~Called("train") /\ pc # "train" /\ "X_scVI" \in Cur.obsm_keys

C7_LoadedRowsAligned ==
    Loaded =>
        /\ Len(Cur.X_scVI) = n_obs(Cur)
        /\ \A i \in 1..n_obs(Cur) : Cur.X_scVI[i] = Lat(Cur.obs[i].name)

\* C8: the caller's collection is never changed, on any path, and what is returned is a
\* copy that carries the additions.
C8_CallerUntouched ==
    /\ objs[1] = given
    /\ Called("select") => adata # 1
    /\ pc = "returned" => (ret = adata /\ ret # 1)

C8_Witness ==
    /\ pc = "returned"
    /\ ~Supplied
    /\ Harmonized
    /\ "X_scVI" \in Cur.obsm_keys
    /\ "is_query" \in Cur.obs_cols
    /\ n_obs(Cur) < Len(given.obs)
    /\ \E i \in 1..Len(given.obs) : given.obs[i].group = "other"

C8_WitnessRaised ==
    /\ pc = "raised"
    /\ exc.at = "DA_nhoods"
    /\ objs[1] = given

\* C9: the stages run in the order select, embed, graph, sample neighbourhoods, count,
\* annotate, is_query, fit, harmonize, each at most once; the covariate is assigned before
\* the fit; after a failure no later stage runs.
Stage(call) ==
    CASE call = "select" -> 1
      [] call \in {"load_ref", "load_q", "attach", "train"} -> 2
      [] call = "neighbors" -> 3
      [] call = "make_nhoods" -> 4
      [] call = "count_nhoods" -> 5
      [] call = "annotate_nhoods" -> 6
      [] call = "is_query" -> 7
      [] call = "DA_nhoods" -> 8
      [] OTHER -> 9

C9_StageOrder ==
    /\ Len(calls) >= 1 => calls[1] = "select"
    /\ \A i \in 1..Len(calls) : CountCalls(calls[i]) = 1
    /\ \A i \in 1..(Len(calls) - 1) :
          \/ Stage(calls[i + 1]) = Stage(calls[i]) + 1
          \/ Stage(calls[i]) = 2 /\ Stage(calls[i + 1]) = 2
          \/ Stage(calls[i]) = 1 /\ Stage(calls[i + 1]) = 3 /\ Supplied
    /\ \A i \in 1..Len(calls) : calls[i] = "DA_nhoods" => \E j \in 1..(i - 1) : calls[j] = "is_query"
    /\ Called("DA_nhoods") => (exc.at = "DA_nhoods" <=> env.fault.at = "DA_nhoods")
    /\ exc # NoExc => (pc = "raised" /\ calls[Len(calls)] = exc.at)
    /\ pc = "raised" => exc # NoExc
    /\ pc = "returned" => (exc = NoExc /\
                             Stage(calls[Len(calls)]) = (IF arg.harmonize_output THEN 9 ELSE 8))

C9_Witness ==
    /\ pc = "raised"
    /\ exc.at = "count_nhoods"
    /\ calls = <<"select", "load_ref", "load_q", "attach", "neighbors", "make_nhoods", "count_nhoods">>

C9_WitnessFull ==
    /\ pc = "returned"
    /\ calls = <<"select", "neighbors", "make_nhoods", "count_nhoods", "annotate_nhoods", "is_query",
                 "DA_nhoods", "harmonize">>

\* C10: the recoverable region is the whole load-and-attach step: a missing-file or
\* malformed-value failure of the second load, or a ValueError when the stacked matrix is
\* attached (row count differs), is not raised, leaves no X_scVI behind, and leads to
\* exactly one training call.
LateRecoverable ==
    /\ ~Supplied
    /\ arg.outdir # NoOutdir
    /\ Loadable(env.disk_ref)
    /\ \/ env.disk_q \in {"missing", "malformed", "garbled"}
       \/ Loadable(env.disk_q) /\ "stale" \in {env.disk_ref, env.disk_q}

C10_WholeStepRecoverable ==
    LateRecoverable =>
        /\ exc.at \notin {"load_ref", "load_q", "attach"}
        /\ pc = "train" => "X_scVI" \notin Cur.obsm_keys
        /\ (Called("load_q") /\ pc \notin {"train", "attach"}) => CountCalls("train") = 1
        /\ CountCalls("train") <= 1
        /\ (Called("train") /\ pc # "raised") =>
              ("X_scVI" \in Cur.obsm_keys /\ Len(Cur.X_scVI) = n_obs(Cur))

C10_Witness ==
    /\ LateRecoverable
    /\ env.disk_q = "stale"
    /\ pc = "returned"
    /\ calls = <<"select", "load_ref", "load_q", "attach", "train", "neighbors", "make_nhoods",
                 "count_nhoods", "annotate_nhoods", "is_query", "DA_nhoods", "harmonize">>

C10_WitnessSecondLoad ==
    /\ LateRecoverable
    /\ env.disk_q = "missing"
    /\ pc = "returned"
    /\ CountCalls("train") = 1

TypeOK ==
    /\ pc \in {"select", "load_ref", "load_q", "attach", "train", "neighbors", "make_nhoods", "count_nhoods",
               "annotate_nhoods", "is_query", "DA_nhoods", "harmonize", "return", "returned", "raised"}
    /\ adata \in 1..Len(objs)
    /\ ret \in 0..Len(objs)
====
